---- MODULE Spec2Model ----
(***************************************************************************)
(* A model of the nv-cli agent core: the run_cmd tool, the plan executor   *)
(* (execute_plan / _execute_tool) and the `nv run --fix` loop              *)
(* (_run_async / _fix_loop).                                               *)
(*                                                                         *)
(* Strings are sequences of tokens: a command, a process output and a file *)
(* body are sequences of one-character strings, fixed message fragments    *)
(* are single tokens.  Python's None is the empty tuple <<>> and a present  *)
(* value v is <<v>>.                                                        *)
(***************************************************************************)
EXTENDS Integers, Sequences, FiniteSets, TLC

VARIABLES
    entry,          \* which operation the run calls: "run", "code", "execute_plan", "run_cmd",
                    \* "write_file", "read_file", "search_files", "parse"
    pc,             \* position of the single thread of control
    allowlist,      \* config.command_allowlist
    command,        \* the command argument of `nv run` / run_cmd
    force,          \* --force of `nv run`, skip_confirm of a direct run_cmd call
    fix,            \* --fix of `nv run`
    exit_status,    \* <<>> while running, <<n>> once the process has ended
    iteration,      \* _fix_loop: loop variable
    failure_output, \* _fix_loop: failure context of the next planning task
    fl_outcome,     \* _fix_loop: the message it ended with
    nPlan,          \* history: calls of generate_plan
    nConfirm,       \* history: "Execute fix plan" confirmations asked
    nExec,          \* history: calls of execute_plan
    nRerun,         \* history: reruns of the original command
    lastTask,       \* history: failure context embedded in the last planning task
    planRaised,     \* history: the exception the last generate_plan call raised, "" for none
    declined,       \* history: the operator has declined an "Execute fix plan" confirmation
    firstFailed,    \* history: the first run of the command returned a non-zero exit code
    plan,           \* execute_plan: plan.steps
    dry_run,        \* execute_plan: dry_run
    idx,            \* execute_plan: index of the step the for loop is at
    results,        \* execute_plan: results
    changed_files,  \* execute_plan: changed_files
    invoked,        \* history: indices of the steps handed to _execute_tool
    prompted,       \* history: indices of the steps Prompt.ask was called for
    summary,        \* history: arguments of the show_summary calls
    toolAsked,      \* history: indices of the steps whose tool asked its own confirmation
    fs,             \* the files of the working directory
    pending,        \* tools._pending_writes
    lastCall,       \* history: the most recent run_cmd call
    lastWrite,      \* history: the most recent write_file call
    rawReply,       \* the model reply handed to _parse_plan_json, by its parts
    parsed,         \* what _parse_plan_json made of it, <<>> before the call
    code_msg,       \* history: the message `nv code` ended with
    lastTool,       \* history: the most recent direct call of read_file, search_files,
                    \* get_pending_diff or clear_pending
    lastExec        \* history: how the most recent execute_plan call went

runVars  == <<command, force, fix, exit_status>>
fixVars  == <<iteration, failure_output, fl_outcome, nPlan, nConfirm, nExec, nRerun, lastTask,
              planRaised, declined, firstFailed>>
execVars == <<plan, dry_run, idx, results, changed_files, invoked, prompted, summary,
              toolAsked>>
toolVars == <<fs, pending, lastWrite>>
parseVars == <<rawReply, parsed>>
vars     == <<entry, pc, allowlist, runVars, fixVars, execVars, toolVars, lastCall, parseVars,
              code_msg, lastTool, lastExec>>

----------------------------------------------------------------------------
(* Bounds of the model *)

MaxCmdLen == 2      \* longest command string of a direct run_cmd call
MaxPrefixLen == 1   \* longest allowlist prefix of a direct run_cmd call
MaxAllow  == 2      \* longest allowlist of a direct run_cmd call
MaxSteps  == 2      \* longest plan
MaxWrites == 2      \* most successive direct write_file calls
MaxProse  == 1      \* longest prose before and after the JSON object of a model reply
MaxOver   == 2      \* most lines a file has beyond the limit of read_file

(* Program constants *)

max_iterations == 3
StdoutMax == 500
StderrMax == 200
NotFoundCode == 127

----------------------------------------------------------------------------
(* Strings *)

None == <<>>
Some(v) == <<v>>

Min(a, b) == IF a < b THEN a ELSE b

\* s[:n]
Take(s, n) == SubSeq(s, 1, Min(n, Len(s)))

\* s.startswith(p): a literal prefix match
StartsWith(s, p) == Len(p) <= Len(s) /\ SubSeq(s, 1, Len(p)) = p

IsSpace(c) == c \in {" ", "\n"}

RECURSIVE LStrip(_)
LStrip(s) == IF s # <<>> /\ IsSpace(Head(s)) THEN LStrip(Tail(s)) ELSE s

RECURSIVE RStrip(_)
RStrip(s) == IF s # <<>> /\ IsSpace(s[Len(s)]) THEN RStrip(SubSeq(s, 1, Len(s) - 1)) ELSE s

\* bytes.decode(...).strip() if bytes else ""
Strip(s) == RStrip(LStrip(s))

RECURSIVE TakeWord(_)
TakeWord(s) == IF s = <<>> \/ IsSpace(Head(s)) THEN <<>> ELSE <<Head(s)>> \o TakeWord(Tail(s))

\* command.split(): is there a first word, and which
HasWord(s) == LStrip(s) # <<>>
FirstWord(s) == TakeWord(LStrip(s))

Alphabet == {"p", " "}

RECURSIVE StringsUpTo(_)
StringsUpTo(n) ==
    IF n = 0 THEN {<<>>}
    ELSE LET shorter == StringsUpTo(n - 1)
         IN shorter \cup {Append(s, c) : s \in shorter, c \in Alphabet}

RECURSIVE ListsUpTo(_, _)
ListsUpTo(S, n) ==
    IF n = 0 THEN {<<>>}
    ELSE LET shorter == ListsUpTo(S, n - 1)
         IN shorter \cup {Append(l, x) : l \in shorter, x \in S}

----------------------------------------------------------------------------
(* run_cmd *)

\* What the spawned shell does: asyncio.create_subprocess_shell + communicate
ProcOutcomes ==
    { [kind |-> "exit", returncode |-> Some(0), stdout |-> <<"o", "\n">>, stderr |-> <<>>],
      [kind |-> "exit", returncode |-> Some(1), stdout |-> <<>>, stderr |-> <<"e">>],
      [kind |-> "exit", returncode |-> Some(2), stdout |-> <<" ", "o">>, stderr |-> <<"e", "\n">>],
      [kind |-> "exit", returncode |-> None, stdout |-> <<>>, stderr |-> <<>>],
      [kind |-> "FileNotFoundError", returncode |-> None, stdout |-> <<>>, stderr |-> <<>>],
      [kind |-> "Exception", returncode |-> None, stdout |-> <<>>, stderr |-> <<"b", "o", "o", "m">>] }

\* any(command.startswith(allowed) for allowed in config.command_allowlist)
InAllowlistFirstWord(cmd, list) == \E i \in 1..Len(list) : FirstWord(cmd) = list[i]
InAllowlist(cmd, list) == \E i \in 1..Len(list) : StartsWith(cmd, list[i])

\* if not skip_confirm and not in_allowlist
RunCmdAsks(cmd, skip_confirm, list) == ~skip_confirm /\ ~InAllowlist(cmd, list)

\* return (0, "", "skipped")
DeclinedFails == <<1, <<>>, <<"skipped">>>>
Declined == <<0, <<>>, <<"skipped">>>>

\* exit_code = proc.returncode or 0
ExitCode(returncode) == IF returncode = None THEN 0 ELSE returncode[1]

\* the try block and its two handlers; raised names an exception that leaves run_cmd
Spawn(cmd, o) ==
    CASE o.kind = "exit" ->
           [raised |-> "", ret |-> <<ExitCode(o.returncode), Strip(o.stdout), Strip(o.stderr)>>]
      [] o.kind = "FileNotFoundError" ->
           IF HasWord(cmd)
           THEN [raised |-> "",
                 ret |-> <<NotFoundCode, <<>>, <<"Command not found: ">> \o FirstWord(cmd)>>]
           ELSE [raised |-> "IndexError", ret |-> <<>>]
      [] OTHER ->
           [raised |-> "", ret |-> <<1, <<>>, o.stderr>>]

NoOutcome == [kind |-> "none", returncode |-> None, stdout |-> <<>>, stderr |-> <<>>]

\* run_cmd(command, skip_confirm=...), with the operator's answer and the shell's outcome
RunCmd(caller, cmd, skip_confirm, answer, o) ==
    LET asked == RunCmdAsks(cmd, skip_confirm, allowlist) IN
    IF asked /\ ~answer
    THEN [caller |-> caller, command |-> cmd, skip_confirm |-> skip_confirm,
          asked |-> TRUE, answer |-> FALSE, spawned |-> FALSE, outcome |-> NoOutcome,
          raised |-> "", ret |-> Declined]
    ELSE [caller |-> caller, command |-> cmd, skip_confirm |-> skip_confirm,
          asked |-> asked, answer |-> asked, spawned |-> TRUE, outcome |-> o,
          raised |-> Spawn(cmd, o).raised, ret |-> Spawn(cmd, o).ret]

NoCall ==
    [caller |-> "none", command |-> <<>>, skip_confirm |-> FALSE,
     asked |-> FALSE, answer |-> FALSE, spawned |-> FALSE,
     outcome |-> NoOutcome,
     raised |-> "", ret |-> <<>>]

----------------------------------------------------------------------------
(* The file system the tools act on.  A path is the sequence of its         *)
(* components ("sub/b.py" is <<"sub", "b.py">>, "" is <<>>); files maps the  *)
(* resolved path of every regular file to its body; a directory is a proper  *)
(* prefix of a file's path, and <<>> is the working directory.               *)

\* Path(path).resolve(), relative to the working directory
Resolve(path) == SelectSeq(path, LAMBDA c : c # ".")

IsPrefix(p, q) == Len(p) <= Len(q) /\ SubSeq(q, 1, Len(p)) = p

IsFile(files, p) == p \in DOMAIN files
IsDir(files, p) == p = <<>> \/ \E q \in DOMAIN files : Len(p) < Len(q) /\ IsPrefix(p, q)
Exists(files, p) == IsFile(files, p) \/ IsDir(files, p)

\* p.parent.mkdir(parents=True, exist_ok=True) followed by open(p, "w") succeeds
Writable(files, p) ==
    /\ ~IsDir(files, p)
    /\ \A k \in 0..(Len(p) - 1) : ~IsFile(files, SubSeq(p, 1, k))

Put(f, k, v) == [x \in DOMAIN f \cup {k} |-> IF x = k THEN v ELSE f[x]]

\* the line boundaries of str.splitlines() that a text read in text mode can hold: "\n"
\* and the form feed (the other boundaries, "\v", "\x1c".."\x1e", "\x85", "\u2028",
\* "\u2029", behave like the form feed; "\r" never survives the read)
IsLineBreak(c) == c \in {"\n", "\f"}

Abs(x) == IF x < 0 THEN 0 - x ELSE x

\* content.splitlines(): the pieces between the line boundaries, without the empty piece
\* after a final boundary.  The text is cut at a boundary near its middle, so that the depth
\* of the evaluation stays logarithmic; the lines of the two parts are the lines of the
\* whole
RECURSIVE SplitLines(_)
SplitLines(s) ==
    IF s = <<>> THEN <<>>
    ELSE LET inner == {i \in 1..(Len(s) - 1) : IsLineBreak(s[i])} IN
         IF inner = {}
         THEN IF IsLineBreak(s[Len(s)]) THEN <<SubSeq(s, 1, Len(s) - 1)>> ELSE <<s>>
         ELSE LET mid == Len(s) \div 2
                  i == CHOOSE j \in inner : \A k \in inner : Abs(j - mid) <= Abs(k - mid)
              IN SplitLines(SubSeq(s, 1, i)) \o SplitLines(SubSeq(s, i + 1, Len(s)))

\* "\n".join(lines), joined by halves
RECURSIVE JoinLines(_)
JoinLines(lines) ==
    IF lines = <<>> THEN <<>>
    ELSE IF Len(lines) = 1 THEN lines[1]
    ELSE LET h == Len(lines) \div 2
         IN JoinLines(SubSeq(lines, 1, h)) \o <<"\n">> \o JoinLines(SubSeq(lines, h + 1, Len(lines)))

----------------------------------------------------------------------------
(* read_file, write_file, search_files *)

ReadMaxLines == 500
SearchMaxShown == 50

\* f.read() of a file opened in text mode "r" (newline=None): universal newlines, every
\* "\r\n" and every lone "\r" of the stored body is returned as "\n": the "\n" that follows
\* a "\r" is dropped and every "\r" becomes "\n"
ReadText(body) ==
    LET marked == [i \in 1..Len(body) |->
                      <<body[i], i > 1 /\ body[i] = "\n" /\ body[i - 1] = "\r">>]
        kept == SelectSeq(marked, LAMBDA m : ~m[2])
    IN [i \in 1..Len(kept) |-> IF kept[i][1] = "\r" THEN "\n" ELSE kept[i][1]]

\* f.write(content) of a file opened in text mode "w" (newline=None) where os.linesep is
\* "\n": the characters are stored as they are
WriteText(content) == content

ReadFile(files, path) ==
    LET p == Resolve(path) IN
    IF ~Exists(files, p) THEN <<"[File not found: ">> \o path \o <<"]">>
    ELSE IF IsDir(files, p) THEN <<"[Error reading ">> \o path \o <<": ", "Is a directory", "]">>
    ELSE LET content == ReadText(files[p])
             lines == SplitLines(content)
         IN
         IF Len(lines) > ReadMaxLines
         THEN JoinLines(SubSeq(lines, 1, ReadMaxLines))
              \o <<"\n... [truncated, ", ToString(Len(lines) - ReadMaxLines), " more lines]">>
         ELSE content

\* write_file(path, content, skip_confirm) on the files and the pending-write table pend,
\* with the operator's answer to "Apply changes?".  raised names an exception leaving it.
WriteFile(files, pend, path, content, skip_confirm, answer) ==
    LET p == Resolve(path)
        original == IF IsFile(files, p) THEN ReadText(files[p]) ELSE <<>>
        same == [out |-> <<>>, files |-> files, pend |-> pend, asked |-> FALSE, raised |-> ""]
    IN
    IF original = content
    THEN [same EXCEPT !.out = <<"No changes needed for ">> \o path]
    ELSE IF ~skip_confirm /\ ~answer
    THEN [same EXCEPT !.out = <<"Skipped: ">> \o path, !.asked = TRUE]
    ELSE IF ~Writable(files, p)
    THEN [same EXCEPT !.asked = ~skip_confirm, !.raised = "OSError"]
    ELSE [out |-> <<"Written: ">> \o path,
          files |-> Put(files, p, WriteText(content)),
          pend |-> Put(pend, p, <<original, content>>),
          asked |-> ~skip_confirm, raised |-> ""]

\* the record of the k-th write_file call: its arguments, the operator's answer, what it
\* returned or raised, and the files and the pending-write table it found
WriteCall(k, path, content, skip_confirm, answer, w, files, pend) ==
    [k |-> k, path |-> path, content |-> content, skip_confirm |-> skip_confirm,
     asked |-> w.asked, answer |-> w.asked /\ answer, out |-> w.out, raised |-> w.raised,
     files |-> files, pend |-> pend]

NoWrite ==
    [k |-> 0, path |-> <<>>, content |-> <<>>, skip_confirm |-> FALSE,
     asked |-> FALSE, answer |-> FALSE, out |-> <<>>, raised |-> "",
     files |-> <<>>, pend |-> <<>>]

\* the record of a direct call of read_file, search_files, get_pending_diff or
\* clear_pending: its arguments, what it returned, and the pending-write table it found
ToolCall(op, path, pattern, out, pend) ==
    [op |-> op, path |-> path, pattern |-> pattern, out |-> out, pend |-> pend]

NoTool == ToolCall("none", <<>>, <<>>, <<>>, <<>>)

\* get_pending_diff(file_path): _pending_writes.get(resolved)
GetPendingDiff(pend, file_path) ==
    IF Resolve(file_path) \in DOMAIN pend THEN Some(pend[Resolve(file_path)]) ELSE None

\* pend without the entry of key k: _pending_writes.pop(k, None)
Pop(pend, k) == [x \in DOMAIN pend \ {k} |-> pend[x]]

\* clear_pending(file_path): arg is None or the file_path
ClearPendingAll(pend, arg) == <<>>
ClearPending(pend, arg) == IF arg = None THEN <<>> ELSE Pop(pend, Resolve(arg[1]))

\* the one-component glob patterns: "*" or a literal name
Matches(pattern, name) == pattern = <<"*">> \/ pattern = <<name>>

\* every file and directory below base
Below(files, base) ==
    UNION {{SubSeq(q, 1, k) : k \in (Len(base) + 1)..Len(q)} :
             q \in {f \in DOMAIN files : IsPrefix(base, f)}}

\* base.glob(pattern) and base.glob("**/" + pattern)
GlobTop(files, base, pattern) ==
    {e \in Below(files, base) : Len(e) = Len(base) + 1 /\ Matches(pattern, e[Len(e)])}
GlobRec(files, base, pattern) ==
    {e \in Below(files, base) : Matches(pattern, e[Len(e)])}

\* sorted(matches): paths compare component by component; the names of the model in
\* their string order ("101" < "102" < ... < "a.py" < "b.py" < "sub")
ManyNames == [i \in 1..(SearchMaxShown + MaxOver) |-> ToString(100 + i)]
Names == ManyNames \o <<"a.py", "b.py", "sub">>
NameRank(c) == IF \E i \in 1..Len(Names) : Names[i] = c
               THEN CHOOSE i \in 1..Len(Names) : Names[i] = c
               ELSE 0

RECURSIVE PathLess(_, _)
PathLess(p, q) ==
    IF p = <<>> THEN q # <<>>
    ELSE IF q = <<>> THEN FALSE
    ELSE IF Head(p) = Head(q) THEN PathLess(Tail(p), Tail(q))
    ELSE NameRank(Head(p)) < NameRank(Head(q))

RECURSIVE Sorted(_)
Sorted(S) ==
    IF S = {} THEN <<>>
    ELSE LET m == CHOOSE x \in S : \A y \in S \ {x} : PathLess(x, y)
         IN <<m>> \o Sorted(S \ {m})

\* "\n".join(f"  {m.relative_to(base)}" for m in matches)
RECURSIVE Listing(_, _)
Listing(matches, base) ==
    IF matches = <<>> THEN <<>>
    ELSE <<"  ">> \o SubSeq(Head(matches), Len(base) + 1, Len(Head(matches)))
         \o (IF Len(matches) > 1 THEN <<"\n">> ELSE <<>>)
         \o Listing(Tail(matches), base)

\* if not matches: matches = sorted(base.glob(f"**/{pattern}"))
TriesRecursiveAlways(top) == TRUE
TriesRecursive(top) == top = {}

SearchFiles(files, pattern, path) ==
    LET base == Resolve(path)
        top == GlobTop(files, base, pattern)
        found == IF TriesRecursive(top) THEN GlobRec(files, base, pattern) ELSE top
        matches == Sorted(found)
    IN
    IF found = {}
    THEN <<"No files found matching '">> \o pattern \o <<"' in '">> \o path \o <<"'">>
    ELSE <<"Found ", ToString(Len(matches)), " file(s):\n">>
         \o Listing(Take(matches, SearchMaxShown), base)
         \o (IF Len(matches) > SearchMaxShown
             THEN <<"\n  ... and ", ToString(Len(matches) - SearchMaxShown), " more">>
             ELSE <<>>)

----------------------------------------------------------------------------
(* The executor: _execute_tool and execute_plan *)

TOOL_MAP == {"read_file", "write_file", "search_files", "run_cmd"}

Step(n, tool, args) == [n |-> n, description |-> <<"d">>, tool |-> tool, args |-> args]

\* args.get(key, default); args is a set of <<key, value>> pairs
Get(args, key, default) ==
    IF \E kv \in args : kv[1] = key
    THEN (CHOOSE kv \in args : kv[1] = key)[2]
    ELSE default

\* ExecutionResult(step, output, skipped, aborted)
ExecutionResult(step, output, skipped, aborted) ==
    [step |-> step, output |-> output, skipped |-> skipped, aborted |-> aborted]

\* f"Error in {step.tool}: {e}"
ErrorInWithoutTool(tool, e) == <<"Error: ", e>>
ErrorIn(tool, e) == <<"Error in ", tool, ": ", e>>

\* f"Unknown tool: {step.tool}"
UnknownToolNotImplemented(tool) == <<"Tool '", tool, "' not yet implemented">>
UnknownTool(tool) == <<"Unknown tool: ", tool>>

\* skip_confirm of the run_cmd call in _execute_tool
StepSkipConfirmPreApproved == TRUE
StepSkipConfirm == FALSE

\* 'exit_code=' + str(exit_code) + chr(10) + 'stdout=' + stdout[:500] + chr(10) + 'stderr=' + stderr[:200]
RunCmdOutput(ret) ==
    <<"exit_code=", ToString(ret[1]), "\n", "stdout=">> \o Take(ret[2], StdoutMax)
    \o <<"\n", "stderr=">> \o Take(ret[3], StderrMax)

\* _execute_tool(step) on the files and the pending table, with the operator's answer to
\* the tool's own confirmation and the outcome of the shell it may spawn
ExecuteTool(step, files, pend, answer, o) ==
    LET args == step.args
        Same(out) == [output |-> out, files |-> files, pend |-> pend,
                      call |-> NoCall, write |-> NoWrite, wasked |-> FALSE]
    IN
    IF step.tool \notin TOOL_MAP THEN Same(UnknownTool(step.tool))
    ELSE CASE step.tool = "read_file" ->
                Same(ReadFile(files, Get(args, "path", <<>>)))
           [] step.tool = "write_file" ->
                LET content_hint == Get(args, "content_hint", <<>>)
                    path == Get(args, "path", <<>>)
                    content == Get(args, "content", content_hint)
                IN
                IF content = <<>> \/ content = content_hint
                THEN Same(<<"Skipped write_file(">> \o path
                          \o <<"): content generation requires model call (Task 5)">>)
                ELSE LET w == WriteFile(files, pend, path, content, FALSE, answer) IN
                     [output |-> IF w.raised # "" THEN ErrorIn(step.tool, w.raised) ELSE w.out,
                      files |-> w.files, pend |-> w.pend, call |-> NoCall,
                      write |-> WriteCall(lastWrite.k + 1, path, content, FALSE, answer, w,
                                          files, pend),
                      wasked |-> w.asked]
           [] step.tool = "search_files" ->
                Same(SearchFiles(files, Get(args, "pattern", <<"*">>), Get(args, "path", <<".">>)))
           [] step.tool = "run_cmd" ->
                LET r == RunCmd("step", Get(args, "command", <<>>), StepSkipConfirm, answer, o) IN
                [output |-> IF r.raised # "" THEN ErrorIn(step.tool, r.raised)
                            ELSE RunCmdOutput(r.ret),
                 files |-> files, pend |-> pend, call |-> r, write |-> NoWrite,
                 wasked |-> FALSE]
           [] OTHER ->
                Same(<<"Tool '", step.tool, "' not yet implemented">>)

\* the inputs a dispatch can read: an operator's answer for the tools that may ask,
\* a shell outcome for run_cmd
ToolAnswers(step) == IF step.tool \in {"write_file", "run_cmd"} THEN BOOLEAN ELSE {TRUE}
ToolOutcomes(step) == IF step.tool = "run_cmd" THEN ProcOutcomes ELSE {NoOutcome}

\* "Written:" in output: the tokens that hold the marker
WrittenTokens == {"Written: ", "Written:"}
HasWritten(output) == \E i \in 1..Len(output) : output[i] \in WrittenTokens

\* where the for loop of execute_plan goes after a step: `continue` and `break`
ContinueLoop(i) == [pc |-> "exec", idx |-> i + 1]
BreakLoop(i) == [pc |-> "exec_summary", idx |-> i]

\* the loop after the 'n' choice
AfterSkip(i) == ContinueLoop(i)

\* the loop after the 'a' choice
AfterAbortKeepsGoing(i) == ContinueLoop(i)
AfterAbort(i) == BreakLoop(i)

\* how an execute_plan call went, by the result list it returns
ExecOutcome(res) ==
    IF res # <<>> /\ res[Len(res)].aborted THEN "aborted"
    ELSE IF res # <<>> /\ \A i \in 1..Len(res) : res[i].skipped THEN "all_skipped"
    ELSE "completed"

\* where execute_plan returns to
ExecReturnCancelsOnAbort ==
    IF entry = "run"
    THEN IF ExecOutcome(results) = "completed" THEN "fix_rerun" ELSE "exited"
    ELSE IF entry = "code" THEN "code_report" ELSE "done"
ExecReturn ==
    CASE entry = "run"  -> "fix_rerun"
      [] entry = "code" -> "code_report"
      [] OTHER          -> "done"

\* for step in plan.steps: the step of the i-th pass
CurrentStepByN(steps, i) ==
    IF \E j \in 1..Len(steps) : steps[j].n = i
    THEN steps[CHOOSE j \in 1..Len(steps) : steps[j].n = i]
    ELSE steps[i]
CurrentStep(steps, i) == steps[i]

\* ExecutionResult(step=step, output="dry-run", skipped=True)
DryRunResultNotSkipped(step) == ExecutionResult(step, <<"dry-run">>, FALSE, FALSE)
DryRunResult(step) == ExecutionResult(step, <<"dry-run">>, TRUE, FALSE)

\* ExecutionResult(step=step, output="aborted", aborted=True)
AbortResultAlsoSkipped(step) == ExecutionResult(step, <<"aborted">>, TRUE, TRUE)
AbortResult(step) == ExecutionResult(step, <<"aborted">>, FALSE, TRUE)

\* if dry_run: ... continue
ExecDryRun ==
    /\ pc = "exec" /\ idx <= Len(plan) /\ dry_run
    /\ results' = Append(results, DryRunResult(CurrentStep(plan, idx)))
    /\ pc' = ContinueLoop(idx).pc /\ idx' = ContinueLoop(idx).idx
    /\ UNCHANGED <<entry, allowlist, lastTool, lastExec, parseVars, code_msg, runVars, fixVars, toolVars, lastCall,
                   plan, dry_run, changed_files, invoked, prompted, summary, toolAsked>>

\* choice == "a"
ExecAbort ==
    /\ pc = "exec" /\ idx <= Len(plan) /\ ~dry_run
    /\ prompted' = Append(prompted, idx)
    /\ results' = Append(results, AbortResult(CurrentStep(plan, idx)))
    /\ pc' = AfterAbort(idx).pc /\ idx' = AfterAbort(idx).idx
    /\ UNCHANGED <<entry, allowlist, lastTool, lastExec, parseVars, code_msg, runVars, fixVars, toolVars, lastCall,
                   plan, dry_run, changed_files, invoked, summary, toolAsked>>

\* choice == "n"
ExecSkip ==
    /\ pc = "exec" /\ idx <= Len(plan) /\ ~dry_run
    /\ prompted' = Append(prompted, idx)
    /\ results' = Append(results, ExecutionResult(CurrentStep(plan, idx), <<"skipped">>, TRUE, FALSE))
    /\ pc' = AfterSkip(idx).pc /\ idx' = AfterSkip(idx).idx
    /\ UNCHANGED <<entry, allowlist, lastTool, lastExec, parseVars, code_msg, runVars, fixVars, toolVars, lastCall,
                   plan, dry_run, changed_files, invoked, summary, toolAsked>>

\* choice == "y": output = await _execute_tool(step)
ExecContinue ==
    /\ pc = "exec" /\ idx <= Len(plan) /\ ~dry_run
    /\ \E answer \in ToolAnswers(CurrentStep(plan, idx)),
          o \in ToolOutcomes(CurrentStep(plan, idx)) :
         LET step == CurrentStep(plan, idx)
             t == ExecuteTool(step, fs, pending, answer, o)
         IN
         /\ prompted' = Append(prompted, idx)
         /\ invoked' = Append(invoked, idx)
         /\ results' = Append(results, ExecutionResult(step, t.output, FALSE, FALSE))
         /\ changed_files' =
              IF step.tool = "write_file" /\ HasWritten(t.output)
              THEN Append(changed_files, Get(step.args, "path", <<"unknown">>))
              ELSE changed_files
         /\ fs' = t.files /\ pending' = t.pend
         /\ lastCall' = IF t.call.caller = "none" THEN lastCall ELSE t.call
         /\ lastWrite' = IF t.write.k = 0 THEN lastWrite ELSE t.write
         /\ toolAsked' = IF t.wasked \/ t.call.asked THEN Append(toolAsked, idx) ELSE toolAsked
    /\ pc' = ContinueLoop(idx).pc /\ idx' = ContinueLoop(idx).idx
    /\ UNCHANGED <<entry, allowlist, lastTool, lastExec, parseVars, code_msg, runVars, fixVars, plan, dry_run, summary>>

\* show_summary(changed_files); return results
ExecSummary ==
    /\ pc = "exec_summary" \/ (pc = "exec" /\ idx > Len(plan))
    /\ summary' = Append(summary, changed_files)
    /\ lastExec' = ExecOutcome(results)
    /\ pc' = ExecReturn
    /\ UNCHANGED <<entry, allowlist, lastTool, parseVars, code_msg, runVars, fixVars, toolVars, lastCall,
                   plan, dry_run, idx, results, changed_files, invoked, prompted, toolAsked>>

\* the plans and the environments of a direct execute_plan call
ExecSteps ==
    { Step(1, "run_cmd", {<<"command", <<"p", "y">>>>}),
      Step(2, "run_cmd", {}),
      Step(1, "read_file", {<<"path", <<"a.py">>>>}),
      Step(3, "write_file", {<<"path", <<"a.py">>>>, <<"content_hint", <<"hint">>>>}),
      Step(1, "write_file", {<<"path", <<"a.py">>>>, <<"content", <<"x">>>>}),
      Step(2, "write_file", {<<"content", <<"x">>>>}),
      Step(1, "write_file", {<<"path", <<"Written:">>>>, <<"content_hint", <<"hint">>>>}),
      Step(1, "search_files", {<<"pattern", <<"b.py">>>>}),
      Step(2, "deploy", {}) }

ExecPlans == ListsUpTo(ExecSteps, MaxSteps)

ExecAllowlists == {<<>>, <<<<"p">>>>}

ExecFiles ==
    { <<>>,
      (<<"a.py">> :> <<"x">>),
      (<<"a.py">> :> <<"y", "\n">>) @@ (<<"sub", "b.py">> :> <<"x">>) }

----------------------------------------------------------------------------
(* The planner as the fix loop sees it: generate_plan *)

\* what the model API and the parser make of one planning request
Replies(stepSet) ==
    {[kind |-> k, steps |-> <<>>] : k \in {"api_error", "no_json", "bad_json", "missing_key"}}
    \cup {[kind |-> "plan", steps |-> p] : p \in ListsUpTo(stepSet, MaxSteps)}

\* generate_plan: the exception it raises ("" for none) and the steps of the plan
GeneratePlan(reply) ==
    CASE reply.kind = "api_error"   -> [raised |-> "RuntimeError", steps |-> <<>>]
      [] reply.kind = "no_json"     -> [raised |-> "ValueError", steps |-> <<>>]
      [] reply.kind = "bad_json"    -> [raised |-> "JSONDecodeError", steps |-> <<>>]
      [] reply.kind = "missing_key" -> [raised |-> "KeyError", steps |-> <<>>]
      [] OTHER                      -> [raised |-> "", steps |-> reply.steps]

\* isinstance(e, cls) for the exception classes above
IsInstance(e, cls) == e = cls \/ (e = "JSONDecodeError" /\ cls = "ValueError")

----------------------------------------------------------------------------
(* _parse_plan_json.  A model reply is a sequence of tokens: "fence" is a    *)
(* code fence (three backticks), "json" a language tag, "w" a word of prose, "{" and "}" braces,     *)
(* "\n" a line break; the members of the JSON object a reply carries are one  *)
(* token that names the object.                                               *)

\* re.sub(r"^```(?:json)?\s*", "", text, flags=re.MULTILINE); atStart: the position is the
\* start of a line
RECURSIVE SubOpenFence(_, _)
SubOpenFence(text, atStart) ==
    IF text = <<>> THEN <<>>
    ELSE IF atStart /\ Head(text) = "fence"
    THEN LET r1 == Tail(text)
             r2 == IF r1 # <<>> /\ Head(r1) = "json" THEN Tail(r1) ELSE r1
             r3 == LStrip(r2)
             last == text[Len(text) - Len(r3)]
         IN SubOpenFence(r3, last = "\n")
    ELSE <<Head(text)>> \o SubOpenFence(Tail(text), Head(text) = "\n")

\* re.sub(r"\s*```\s*$", "", text, flags=re.MULTILINE): a fence with the white space before
\* it and the white space after it up to the end of a line
RECURSIVE SubCloseFence(_)
SubCloseFence(text) ==
    IF text = <<>> THEN <<>>
    ELSE LET afterWs == LStrip(text) IN
         IF afterWs # <<>> /\ Head(afterWs) = "fence"
         THEN LET rest == Tail(afterWs)
                  run == SubSeq(rest, 1, Len(rest) - Len(LStrip(rest)))
                  nls == {j \in 1..Len(run) : run[j] = "\n"}
              IN
              IF LStrip(rest) = <<>> THEN <<>>
              ELSE IF nls # {}
              THEN SubCloseFence(SubSeq(rest, CHOOSE j \in nls : \A k \in nls : k <= j,
                                        Len(rest)))
              ELSE <<Head(text)>> \o SubCloseFence(Tail(text))
         ELSE <<Head(text)>> \o SubCloseFence(Tail(text))

\* re.search(r"\{.*\}", text, re.DOTALL): None, or the span from the first "{" to the last
\* "}" after it
SearchObject(text) ==
    LET opens == {i \in 1..Len(text) : text[i] = "{"} IN
    IF opens = {} THEN None
    ELSE LET a == CHOOSE i \in opens : \A j \in opens : i <= j
             closes == {i \in (a + 1)..Len(text) : text[i] = "}"}
         IN IF closes = {} THEN None
            ELSE Some(SubSeq(text, a, CHOOSE i \in closes : \A j \in closes : j <= i))

\* a JSON step object: each member is None when the key is absent
JsonStep(n, description, tool, args) ==
    [n |-> n, description |-> description, tool |-> tool, args |-> args]

\* json.dumps of a PlanStep; an empty args mapping is left out
DumpStep(step) ==
    JsonStep(Some(step.n), Some(step.description), Some(step.tool),
             IF step.args = {} THEN None ELSE Some(step.args))

DumpSteps(steps) == [i \in 1..Len(steps) |-> DumpStep(steps[i])]

\* the plans whose JSON form a reply may carry
SourcePlans ==
    << <<>>,
       <<Step(1, "read_file", {<<"path", <<"a.py">>>>})>>,
       <<Step(2, "deploy", {}), Step(1, "run_cmd", {<<"command", <<"p", "y">>>>})>> >>

\* the JSON objects a reply may carry: the well-formed plans above, with and without a
\* summary, an object without "steps", and objects with a step that lacks "description",
\* "n" or "tool"
JsonObjects ==
    << [summary |-> Some(<<"s">>), steps |-> Some(DumpSteps(SourcePlans[1]))],
       [summary |-> Some(<<"s">>), steps |-> Some(DumpSteps(SourcePlans[2]))],
       [summary |-> None, steps |-> Some(DumpSteps(SourcePlans[3]))],
       [summary |-> Some(<<"s">>), steps |-> None],
       [summary |-> Some(<<"s">>),
        steps |-> Some(<<JsonStep(Some(1), None, Some("read_file"), None)>>)],
       [summary |-> Some(<<"s">>),
        steps |-> Some(DumpSteps(SourcePlans[2])
                       \o <<JsonStep(None, Some(<<"d">>), Some("read_file"), None)>>)],
       [summary |-> None,
        steps |-> Some(<<JsonStep(Some(1), Some(<<"d">>), None, Some({}))>>)] >>

\* the token that stands for the members of the i-th object in a text
ObjTokens == <<"obj1", "obj2", "obj3", "obj4", "obj5", "obj6", "obj7">>

\* the text of the i-th object; no text for i = 0
JsonText(i) == IF i = 0 THEN <<>> ELSE <<"{", ObjTokens[i], "}">>

\* json.loads of a span that starts with "{" and ends with "}"; white space between the
\* tokens of a JSON text is insignificant
JsonLoads(span) ==
    LET toks == SelectSeq(span, LAMBDA c : ~IsSpace(c)) IN
    IF toks = <<"{", "}">>
    THEN [raised |-> "", data |-> [summary |-> None, steps |-> None]]
    ELSE IF Len(toks) = 3 /\ \E i \in 1..Len(ObjTokens) : ObjTokens[i] = toks[2]
    THEN [raised |-> "",
          data |-> JsonObjects[CHOOSE i \in 1..Len(ObjTokens) : ObjTokens[i] = toks[2]]]
    ELSE [raised |-> "JSONDecodeError", data |-> [summary |-> None, steps |-> None]]

\* PlanStep(n=s["n"], description=s["description"], tool=s["tool"], args=s.get("args", {}))
PlanStep(s) ==
    [n |-> s.n[1], description |-> s.description[1], tool |-> s.tool[1],
     args |-> IF s.args = None THEN {} ELSE s.args[1]]

\* data.get("summary", "No summary")
DefaultSummaryEmpty == <<>>
DefaultSummary == <<"No summary">>

NoPlan == [raised |-> "", summary |-> <<>>, steps |-> <<>>]

\* _parse_plan_json(raw): the exception it raises ("" for none) or the Plan
ParsePlanJson(raw) ==
    LET text == Strip(SubCloseFence(SubOpenFence(Strip(raw), TRUE)))
        match == SearchObject(text)
    IN
    IF match = None THEN [NoPlan EXCEPT !.raised = "ValueError"]
    ELSE LET loaded == JsonLoads(match[1]) IN
         IF loaded.raised # "" THEN [NoPlan EXCEPT !.raised = loaded.raised]
         ELSE LET data == loaded.data
                  items == IF data.steps = None THEN <<>> ELSE data.steps[1]
              IN
              IF \E i \in 1..Len(items) :
                     items[i].n = None \/ items[i].description = None \/ items[i].tool = None
              THEN [NoPlan EXCEPT !.raised = "KeyError"]
              ELSE [raised |-> "",
                    summary |-> IF data.summary = None THEN DefaultSummary
                                ELSE data.summary[1],
                    steps |-> [i \in 1..Len(items) |-> PlanStep(items[i])]]

\* how a reply wraps its JSON object
Styles == {"bare", "fenced_json", "fenced", "fenced_other"}

Wrapped(style, body) ==
    CASE style = "fenced_json"  -> <<"fence", "json", "\n">> \o body \o <<"\n", "fence">>
      [] style = "fenced"       -> <<"fence", "\n">> \o body \o <<"\n", "fence">>
      [] style = "fenced_other" -> <<"fence", "w", "\n">> \o body \o <<"\n", "fence">>
      [] OTHER                  -> body

ProseTokens == {"w", "\n", "{", "}"}

ParseReplies ==
    [prefix : ListsUpTo(ProseTokens, MaxProse), style : Styles,
     obj : 0..Len(JsonObjects), suffix : ListsUpTo(ProseTokens, MaxProse)]

\* the raw text of a reply
Raw(r) == r.prefix \o Wrapped(r.style, JsonText(r.obj)) \o r.suffix

NoReply == [prefix |-> <<>>, style |-> "bare", obj |-> 0, suffix |-> <<>>]

----------------------------------------------------------------------------
(* nv run: _run_async and _fix_loop *)

\* combined_output / failure_output
Combined(stdout, stderr) ==
    (IF stdout # <<>> THEN <<"STDOUT:\n">> \o stdout \o <<"\n">> ELSE <<>>)
    \o (IF stderr # <<>> THEN <<"STDERR:\n">> \o stderr \o <<"\n">> ELSE <<>>)

\* if exit_code == 0 or not fix: raise typer.Exit(exit_code)
ExitsAfterFirstRunUnlessFix(exit_code, fixFlag) == ~fixFlag
ExitsAfterFirstRun(exit_code, fixFlag) == exit_code = 0 \/ ~fixFlag

\* raise typer.Exit(exit_code): the exit status the process ends with
TyperExitSuccess(exit_code) == Some(0)
TyperExit(exit_code) == Some(exit_code)

\* the exit status once _fix_loop has returned: _run_async returns None
FixLoopExitFailure == Some(1)
FixLoopExit == Some(0)

\* except (ValueError, RuntimeError)
CaughtByFixLoop(e) == IsInstance(e, "ValueError") \/ IsInstance(e, "RuntimeError")

\* skip_confirm of the rerun in _fix_loop
RerunSkipConfirmAsks == FALSE
RerunSkipConfirm == TRUE

\* if exit_code == 0: ... return
RerunFixedNever(exit_code) == FALSE
RerunFixed(exit_code) == exit_code = 0

\* for iteration in range(1, max_iterations + 1): is there a next iteration
HasNextIterationOffByOne(it) == it + 1 <= max_iterations + 1
HasNextIteration(it) == it + 1 <= max_iterations

\* if not confirmed: ... return
AfterDeclineNextIteration(it) ==
    IF HasNextIteration(it)
    THEN [pc |-> "fix_plan", iteration |-> it + 1, fl_outcome |-> "none", exit_status |-> None]
    ELSE [pc |-> "exited", iteration |-> it, fl_outcome |-> "exhausted", exit_status |-> FixLoopExit]
AfterDecline(it) ==
    [pc |-> "exited", iteration |-> it, fl_outcome |-> "cancelled", exit_status |-> FixLoopExit]

\* _run_async up to the fix loop: the first run of the command
RunAsync ==
    /\ pc = "run"
    /\ \E answer \in BOOLEAN, o \in ProcOutcomes :
         LET r == RunCmd("first", command, force, answer, o) IN
         /\ lastCall' = r
         /\ firstFailed' = (r.raised = "" /\ r.ret[1] # 0)
         /\ IF r.raised # ""
            THEN /\ pc' = "crashed" /\ exit_status' = Some(1)
                 /\ UNCHANGED <<iteration, failure_output, fl_outcome>>
            ELSE IF ExitsAfterFirstRun(r.ret[1], fix)
            THEN /\ pc' = "exited" /\ exit_status' = TyperExit(r.ret[1])
                 /\ UNCHANGED <<iteration, failure_output, fl_outcome>>
            ELSE /\ failure_output' = Combined(r.ret[2], r.ret[3])
                 /\ IF 1 <= max_iterations
                    THEN /\ pc' = "fix_plan" /\ iteration' = 1
                         /\ UNCHANGED <<exit_status, fl_outcome>>
                    ELSE /\ pc' = "exited" /\ exit_status' = FixLoopExit
                         /\ fl_outcome' = "exhausted" /\ UNCHANGED iteration
    /\ UNCHANGED <<entry, allowlist, lastTool, lastExec, parseVars, code_msg, command, force, fix, execVars, toolVars,
                   nPlan, nConfirm, nExec, nRerun, lastTask, planRaised, declined>>

\* the steps a fix plan is made of
FixSteps ==
    { Step(1, "run_cmd", {<<"command", <<"p", "y">>>>}),
      Step(1, "write_file", {<<"path", <<"a.py">>>>, <<"content_hint", <<"hint">>>>}) }

FixReplies == Replies(FixSteps)

\* plan = await generate_plan(task, context_path=context)
FixGeneratePlan ==
    /\ pc = "fix_plan"
    /\ nPlan' = nPlan + 1
    /\ lastTask' = failure_output
    /\ \E reply \in FixReplies :
         LET g == GeneratePlan(reply) IN
         /\ planRaised' = g.raised
         /\ IF g.raised = ""
            THEN /\ plan' = g.steps /\ pc' = "fix_confirm"
                 /\ UNCHANGED <<fl_outcome, exit_status>>
            ELSE IF CaughtByFixLoop(g.raised)
            THEN /\ fl_outcome' = "plan_failed" /\ pc' = "exited" /\ exit_status' = FixLoopExit
                 /\ UNCHANGED plan
            ELSE /\ pc' = "crashed" /\ exit_status' = Some(1)
                 /\ UNCHANGED <<plan, fl_outcome>>
    /\ UNCHANGED <<entry, allowlist, lastTool, lastExec, parseVars, code_msg, command, force, fix, toolVars, lastCall,
                   iteration, failure_output, nConfirm, nExec, nRerun, declined, firstFailed,
                   dry_run, idx, results, changed_files, invoked, prompted, summary, toolAsked>>

\* typer.confirm("Execute fix plan ..."), then results = await execute_plan(plan)
FixConfirm ==
    /\ pc = "fix_confirm"
    /\ nConfirm' = nConfirm + 1
    /\ \E confirmed \in BOOLEAN :
         /\ declined' = (declined \/ ~confirmed)
         /\ IF ~confirmed
            THEN /\ pc' = AfterDecline(iteration).pc
                 /\ iteration' = AfterDecline(iteration).iteration
                 /\ fl_outcome' = AfterDecline(iteration).fl_outcome
                 /\ exit_status' = AfterDecline(iteration).exit_status
                 /\ UNCHANGED <<nExec, dry_run, idx, results, changed_files, invoked,
                                prompted, toolAsked>>
            ELSE /\ pc' = "exec" /\ nExec' = nExec + 1
                 /\ dry_run' = FALSE /\ idx' = 1 /\ results' = <<>> /\ changed_files' = <<>>
                 /\ invoked' = <<>> /\ prompted' = <<>> /\ toolAsked' = <<>>
                 /\ UNCHANGED <<iteration, fl_outcome, exit_status>>
    /\ UNCHANGED <<entry, allowlist, lastTool, lastExec, parseVars, code_msg, command, force, fix, toolVars, lastCall,
                   failure_output, nPlan, nRerun, lastTask, planRaised, plan, summary,
                   firstFailed>>

\* the rerun of the original command and the end of the loop body
FixRerun ==
    /\ pc = "fix_rerun"
    /\ nRerun' = nRerun + 1
    /\ \E answer \in BOOLEAN, o \in ProcOutcomes :
         LET r == RunCmd("rerun", command, RerunSkipConfirm, answer, o) IN
         /\ lastCall' = r
         /\ IF r.raised # ""
            THEN /\ pc' = "crashed" /\ exit_status' = Some(1)
                 /\ UNCHANGED <<iteration, failure_output, fl_outcome>>
            ELSE IF RerunFixed(r.ret[1])
            THEN /\ pc' = "exited" /\ exit_status' = FixLoopExit /\ fl_outcome' = "fixed"
                 /\ UNCHANGED <<iteration, failure_output>>
            ELSE /\ failure_output' = Combined(r.ret[2], r.ret[3])
                 /\ IF HasNextIteration(iteration)
                    THEN /\ pc' = "fix_plan" /\ iteration' = iteration + 1
                         /\ UNCHANGED <<exit_status, fl_outcome>>
                    ELSE /\ pc' = "exited" /\ exit_status' = FixLoopExit
                         /\ fl_outcome' = "exhausted" /\ UNCHANGED iteration
    \* results is bound and never read (run.py:94); the plan and the executor's locals are dead
    /\ plan' = <<>> /\ idx' = 0 /\ results' = <<>> /\ changed_files' = <<>>
    /\ invoked' = <<>> /\ prompted' = <<>> /\ toolAsked' = <<>>
    /\ UNCHANGED <<entry, allowlist, lastTool, lastExec, parseVars, code_msg, command, force, fix, dry_run, summary, toolVars,
                   nPlan, nConfirm, nExec, lastTask, planRaised, declined, firstFailed>>

RunCommands == {<<"p", "y">>, <<>>}

----------------------------------------------------------------------------
(* nv code: _code_async *)

\* except ValueError ... except RuntimeError: the message of the handler that catches e,
\* "none" when no handler does
CodeFailureMessage(e) ==
    IF IsInstance(e, "ValueError") THEN "Failed to generate plan"
    ELSE IF IsInstance(e, "RuntimeError") THEN "API error"
    ELSE "none"

\* the steps a plan of `nv code` is made of
CodeSteps ==
    { Step(1, "read_file", {<<"path", <<"a.py">>>>}),
      Step(2, "run_cmd", {<<"command", <<"p", "y">>>>}) }

CodeReplies == Replies(CodeSteps)

\* sum(1 for r in results if not r.skipped and not r.aborted), sum(1 for r in results if r.skipped)
Executed(res) == Cardinality({i \in 1..Len(res) : ~res[i].skipped /\ ~res[i].aborted})
Skipped(res) == Cardinality({i \in 1..Len(res) : res[i].skipped})

\* plan = await generate_plan(task, ...) with its two handlers, plan.display(), and the
\* return of a dry run; dry_run is the --dry-run flag here, execute_plan is called without it
CodeGeneratePlan ==
    /\ pc = "code"
    /\ nPlan' = nPlan + 1
    /\ \E reply \in CodeReplies :
         LET g == GeneratePlan(reply) IN
         /\ planRaised' = g.raised
         /\ IF g.raised = ""
            THEN /\ plan' = g.steps
                 /\ IF dry_run
                    THEN pc' = "exited" /\ exit_status' = Some(0) /\ code_msg' = "Dry-run complete"
                    ELSE pc' = "code_confirm" /\ UNCHANGED <<exit_status, code_msg>>
            ELSE IF CodeFailureMessage(g.raised) # "none"
            THEN /\ code_msg' = CodeFailureMessage(g.raised)
                 /\ pc' = "exited" /\ exit_status' = TyperExit(1)
                 /\ UNCHANGED plan
            ELSE /\ pc' = "crashed" /\ exit_status' = Some(1)
                 /\ UNCHANGED <<plan, code_msg>>
    /\ UNCHANGED <<entry, allowlist, lastTool, lastExec, parseVars, command, force, fix, toolVars, lastCall,
                   iteration, failure_output, fl_outcome, nConfirm, nExec, nRerun, lastTask,
                   declined, firstFailed,
                   dry_run, idx, results, changed_files, invoked, prompted, summary, toolAsked>>

\* typer.confirm("Execute this plan?"), then results = await execute_plan(plan)
CodeConfirm ==
    /\ pc = "code_confirm"
    /\ nConfirm' = nConfirm + 1
    /\ \E confirmed \in BOOLEAN :
         IF ~confirmed
         THEN /\ pc' = "exited" /\ exit_status' = Some(0) /\ code_msg' = "Plan cancelled"
              /\ UNCHANGED <<nExec, idx>>
         ELSE /\ pc' = "exec" /\ nExec' = nExec + 1 /\ idx' = 1
              /\ UNCHANGED <<exit_status, code_msg>>
    /\ UNCHANGED <<entry, allowlist, lastTool, lastExec, parseVars, command, force, fix, toolVars, lastCall,
                   iteration, failure_output, fl_outcome, nPlan, nRerun, lastTask, planRaised,
                   declined, firstFailed, plan, dry_run, results, changed_files, invoked,
                   prompted, summary, toolAsked>>

\* the "Done!" report after execute_plan has returned
CodeReport ==
    /\ pc = "code_report"
    /\ pc' = "exited" /\ exit_status' = Some(0) /\ code_msg' = "Done"
    /\ UNCHANGED <<entry, allowlist, lastTool, lastExec, parseVars, command, force, fix, fixVars, execVars,
                   toolVars, lastCall>>

----------------------------------------------------------------------------
(* Initial states *)

Idle ==
    /\ exit_status = None
    /\ iteration = 0 /\ failure_output = <<>> /\ fl_outcome = "none"
    /\ nPlan = 0 /\ nConfirm = 0 /\ nExec = 0 /\ nRerun = 0 /\ lastTask = <<>>
    /\ planRaised = "" /\ declined = FALSE /\ firstFailed = FALSE /\ toolAsked = <<>>
    /\ plan = <<>> /\ dry_run = FALSE /\ idx = 0 /\ results = <<>>
    /\ changed_files = <<>> /\ invoked = <<>> /\ prompted = <<>> /\ summary = <<>>
    /\ lastCall = NoCall /\ lastWrite = NoWrite
    /\ pending = <<>>
    /\ rawReply = NoReply /\ parsed = None /\ code_msg = "none"
    /\ lastTool = NoTool /\ lastExec = "none"

\* a direct call run_cmd(command, skip_confirm=force)
InitRunCmd ==
    /\ entry = "run_cmd" /\ pc = "run_cmd"
    /\ command \in StringsUpTo(MaxCmdLen)
    /\ allowlist \in ListsUpTo(StringsUpTo(MaxPrefixLen), MaxAllow)
    /\ force \in BOOLEAN /\ fix = FALSE
    /\ fs = <<>>
    /\ Idle

\* a direct call execute_plan(plan, dry_run)
InitExec ==
    /\ entry = "execute_plan" /\ pc = "exec"
    /\ plan \in ExecPlans
    /\ dry_run \in BOOLEAN
    /\ allowlist \in ExecAllowlists
    /\ fs \in ExecFiles
    /\ command = <<>> /\ force = FALSE /\ fix = FALSE
    /\ exit_status = None
    /\ iteration = 0 /\ failure_output = <<>> /\ fl_outcome = "none"
    /\ nPlan = 0 /\ nConfirm = 0 /\ nExec = 1 /\ nRerun = 0 /\ lastTask = <<>>
    /\ planRaised = "" /\ declined = FALSE /\ firstFailed = FALSE /\ toolAsked = <<>>
    /\ idx = 1 /\ results = <<>>
    /\ changed_files = <<>> /\ invoked = <<>> /\ prompted = <<>> /\ summary = <<>>
    /\ lastCall = NoCall /\ lastWrite = NoWrite
    /\ pending = <<>>
    /\ rawReply = NoReply /\ parsed = None /\ code_msg = "none"
    /\ lastTool = NoTool /\ lastExec = "none"

\* nv run <command> [--force] [--fix]
InitRun ==
    /\ entry = "run" /\ pc = "run"
    /\ command \in RunCommands
    /\ allowlist \in ExecAllowlists
    /\ force \in BOOLEAN /\ fix \in BOOLEAN
    /\ fs = (<<"a.py">> :> <<"x">>)
    /\ Idle

\* the arguments and the environments of direct write_file calls
WritePaths == {<<"a.py">>, <<".", "a.py">>, <<"b.py">>, <<>>}
WriteContents == {<<>>, <<"x">>, <<"x", "\n">>, <<"x", "\r", "\n">>}
WriteFiles == {<<>>, (<<"a.py">> :> <<"x">>), (<<"a.py">> :> <<"x", "\r", "\n">>)}

\* skip_confirm and the operator's answer, which is read only when skip_confirm is false
WriteConfirmations == {<<TRUE, TRUE>>, <<FALSE, TRUE>>, <<FALSE, FALSE>>}

\* direct calls write_file(path, content, skip_confirm)
InitWrite ==
    /\ entry = "write_file" /\ pc = "write_file"
    /\ fs \in WriteFiles
    /\ allowlist = <<>> /\ command = <<>> /\ force = FALSE /\ fix = FALSE
    /\ Idle

\* a text file of n lines "l": ended by sep, the last one only when terminated
TextFile(n, sep, terminated) ==
    LET w == Len(sep) + 1
        len == IF n = 0 THEN 0 ELSE IF terminated THEN n * w ELSE n * w - Len(sep)
    IN [i \in 1..len |-> IF i % w = 1 THEN "l" ELSE sep[((i - 2) % w) + 1]]

\* the files read_file is called on: around the line limit, with LF and CRLF line ends, and
\* a file of ReadMaxLines lines with a page break (a form feed on a line of its own)
ReadLineCounts == {0, 1, ReadMaxLines - 1, ReadMaxLines} \cup
                  {ReadMaxLines + k : k \in 1..MaxOver}
ReadBodies ==
    {TextFile(n, <<"\n">>, t) : n \in ReadLineCounts, t \in BOOLEAN}
    \cup {TextFile(n, <<"\r", "\n">>, TRUE) : n \in ReadLineCounts}
    \cup {<<"l", "\n", "\f", "\n">> \o TextFile(ReadMaxLines - 2, <<"\n">>, TRUE)}
ReadFiles == {(<<"a.py">> :> b) : b \in ReadBodies}
ReadPaths == {<<"a.py">>, <<".", "a.py">>, <<"b.py">>}

\* a direct call read_file(path)
InitRead ==
    /\ entry = "read_file" /\ pc = "read_file"
    /\ fs \in ReadFiles
    /\ allowlist = <<>> /\ command = <<>> /\ force = FALSE /\ fix = FALSE
    /\ Idle

\* a directory tree with k files "101", "102", ... in the directory dir
ManyFiles(k, dir) == [q \in {dir \o <<ManyNames[i]>> : i \in 1..k} |-> <<"x">>]

\* the trees search_files is called on: none, a file at the top and one below, a name at
\* both levels, and directories with a number of files around the listing limit
SearchTrees ==
    { <<>>,
      (<<"a.py">> :> <<"x">>) @@ (<<"sub", "b.py">> :> <<"x">>),
      (<<"b.py">> :> <<"x">>) @@ (<<"sub", "b.py">> :> <<"x">>) }
    \cup {ManyFiles(k, <<>>) : k \in (SearchMaxShown - 1)..(SearchMaxShown + MaxOver)}
    \cup {ManyFiles(SearchMaxShown + MaxOver, <<"sub">>)}
SearchPatterns == {<<"*">>, <<"b.py">>, <<"c.py">>}
SearchPaths == {<<".">>, <<"sub">>, <<"b.py">>}

\* a direct call search_files(pattern, path)
InitSearch ==
    /\ entry = "search_files" /\ pc = "search_files"
    /\ fs \in SearchTrees
    /\ allowlist = <<>> /\ command = <<>> /\ force = FALSE /\ fix = FALSE
    /\ Idle

\* a direct call _parse_plan_json(raw)
InitParse ==
    /\ entry = "parse" /\ pc = "parse"
    /\ fs = <<>>
    /\ allowlist = <<>> /\ command = <<>> /\ force = FALSE /\ fix = FALSE
    /\ exit_status = None
    /\ iteration = 0 /\ failure_output = <<>> /\ fl_outcome = "none"
    /\ nPlan = 0 /\ nConfirm = 0 /\ nExec = 0 /\ nRerun = 0 /\ lastTask = <<>>
    /\ planRaised = "" /\ declined = FALSE /\ firstFailed = FALSE /\ toolAsked = <<>>
    /\ plan = <<>> /\ dry_run = FALSE /\ idx = 0 /\ results = <<>>
    /\ changed_files = <<>> /\ invoked = <<>> /\ prompted = <<>> /\ summary = <<>>
    /\ lastCall = NoCall /\ lastWrite = NoWrite
    /\ pending = <<>>
    /\ rawReply \in ParseReplies /\ parsed = None /\ code_msg = "none"
    /\ lastTool = NoTool /\ lastExec = "none"

\* nv code <task> [--dry-run]
InitCode ==
    /\ entry = "code" /\ pc = "code"
    /\ dry_run \in BOOLEAN
    /\ allowlist \in ExecAllowlists
    /\ fs = (<<"a.py">> :> <<"x">>)
    /\ command = <<>> /\ force = FALSE /\ fix = FALSE
    /\ exit_status = None
    /\ iteration = 0 /\ failure_output = <<>> /\ fl_outcome = "none"
    /\ nPlan = 0 /\ nConfirm = 0 /\ nExec = 0 /\ nRerun = 0 /\ lastTask = <<>>
    /\ planRaised = "" /\ declined = FALSE /\ firstFailed = FALSE /\ toolAsked = <<>>
    /\ plan = <<>> /\ idx = 0 /\ results = <<>>
    /\ changed_files = <<>> /\ invoked = <<>> /\ prompted = <<>> /\ summary = <<>>
    /\ lastCall = NoCall /\ lastWrite = NoWrite
    /\ pending = <<>>
    /\ rawReply = NoReply /\ parsed = None /\ code_msg = "none"
    /\ lastTool = NoTool /\ lastExec = "none"

Init == InitRunCmd \/ InitExec \/ InitRun \/ InitWrite \/ InitParse \/ InitCode \/ InitRead
        \/ InitSearch

----------------------------------------------------------------------------
(* Actions *)

DirectRunCmd ==
    /\ pc = "run_cmd"
    /\ \E answer \in BOOLEAN, o \in ProcOutcomes :
         LET r == RunCmd("direct", command, force, answer, o) IN
         /\ lastCall' = r
         /\ pc' = IF r.raised = "" THEN "done" ELSE "raised"
    /\ UNCHANGED <<entry, allowlist, lastTool, lastExec, parseVars, code_msg, runVars, fixVars, execVars, toolVars>>

\* the writes of a session come first, the calls of get_pending_diff and clear_pending on
\* what they left follow
DirectWriteFile ==
    /\ pc = "write_file" /\ lastWrite.k < MaxWrites /\ lastTool = NoTool
    /\ \E path \in WritePaths, content \in WriteContents, c \in WriteConfirmations :
         LET w == WriteFile(fs, pending, path, content, c[1], c[2]) IN
         /\ fs' = w.files /\ pending' = w.pend
         /\ lastWrite' = WriteCall(lastWrite.k + 1, path, content, c[1], c[2], w, fs, pending)
         /\ pc' = IF w.raised = "" THEN "write_file" ELSE "raised"
    /\ UNCHANGED <<entry, allowlist, lastTool, lastExec, parseVars, code_msg, runVars, fixVars, execVars, lastCall>>

DirectGetPendingDiff ==
    /\ pc = "write_file"
    /\ \E path \in WritePaths :
         lastTool' = ToolCall("get_pending_diff", Some(path), <<>>,
                              GetPendingDiff(pending, path), pending)
    /\ UNCHANGED <<entry, pc, allowlist, lastExec, parseVars, code_msg, runVars, fixVars, execVars,
                   toolVars, lastCall>>

DirectClearPending ==
    /\ pc = "write_file"
    /\ \E arg \in {None} \cup {Some(path) : path \in WritePaths} :
         /\ pending' = ClearPending(pending, arg)
         /\ lastTool' = ToolCall("clear_pending", arg, <<>>, None, pending)
    /\ UNCHANGED <<entry, pc, allowlist, lastExec, parseVars, code_msg, runVars, fixVars, execVars,
                   fs, lastWrite, lastCall>>

DirectReadFile ==
    /\ pc = "read_file"
    /\ \E path \in ReadPaths :
         lastTool' = ToolCall("read_file", path, <<>>, ReadFile(fs, path), pending)
    /\ pc' = "done"
    /\ UNCHANGED <<entry, allowlist, lastExec, parseVars, code_msg, runVars, fixVars, execVars, toolVars,
                   lastCall>>

DirectSearchFiles ==
    /\ pc = "search_files"
    /\ \E pattern \in SearchPatterns, path \in SearchPaths :
         lastTool' = ToolCall("search_files", path, pattern, SearchFiles(fs, pattern, path),
                              pending)
    /\ pc' = "done"
    /\ UNCHANGED <<entry, allowlist, lastExec, parseVars, code_msg, runVars, fixVars, execVars, toolVars,
                   lastCall>>

DirectParse ==
    /\ pc = "parse"
    /\ parsed' = Some(ParsePlanJson(Raw(rawReply)))
    /\ pc' = IF ParsePlanJson(Raw(rawReply)).raised = "" THEN "done" ELSE "raised"
    /\ UNCHANGED <<entry, allowlist, lastTool, lastExec, code_msg, runVars, fixVars, execVars, toolVars, lastCall,
                   rawReply>>

Next ==
    \/ DirectRunCmd \/ DirectWriteFile \/ DirectGetPendingDiff \/ DirectClearPending
    \/ DirectReadFile \/ DirectSearchFiles
    \/ DirectParse
    \/ ExecDryRun \/ ExecAbort \/ ExecSkip \/ ExecContinue \/ ExecSummary
    \/ RunAsync \/ FixGeneratePlan \/ FixConfirm \/ FixRerun
    \/ CodeGeneratePlan \/ CodeConfirm \/ CodeReport

Spec == Init /\ [][Next]_vars

----------------------------------------------------------------------------
(* Properties *)

Range(seq) == {seq[i] : i \in 1..Len(seq)}

\* execute_plan has returned its result list to its caller
Returned == pc \in {"done", "fix_rerun", "code_report"}

\* the run is over: the process has ended or the direct call has returned or raised
Terminated == pc \in {"done", "raised", "exited", "crashed"}

\* C1: in interactive execute_plan, an 'abort' at the k-th step leaves exactly k results,
\* the k-th being the aborted result of that step; the loop has stopped, no later step is
\* prompted for, dispatched to a tool or given a result.
C1_AbortShortCircuits ==
    \A k \in 1..Len(results) :
        results[k].aborted =>
            /\ ~dry_run
            /\ Len(results) = k
            /\ results[k] = ExecutionResult(plan[k], <<"aborted">>, FALSE, TRUE)
            /\ \A j \in 1..(k - 1) : ~results[j].aborted
            /\ \A i \in Range(invoked) : i < k
            /\ \A i \in Range(prompted) : i <= k
            /\ \A i \in Range(toolAsked) : i < k
            /\ pc # "exec"

\* C1 witness: a plan of at least two steps was aborted at its first step and has returned
C1_Witness ==
    /\ entry = "execute_plan" /\ pc = "done"
    /\ Len(plan) >= 2 /\ Len(results) = 1 /\ results[1].aborted
    /\ plan[2].tool = "run_cmd"

\* C2: the fix loop never makes more than max_iterations plan / execute / rerun cycles;
\* when the max_iterations-th rerun fails the loop reports failure and the run is over,
\* having made exactly max_iterations cycles.
C2_FixLoopBounded ==
    /\ nPlan <= max_iterations /\ nConfirm <= max_iterations
    /\ nExec <= max_iterations /\ nRerun <= max_iterations
    /\ (lastCall.caller = "rerun" /\ lastCall.raised = "" /\ nRerun = max_iterations
        /\ lastCall.ret[1] # 0)
         => (fl_outcome = "exhausted" /\ pc = "exited")
    /\ fl_outcome = "exhausted"
         => /\ nPlan = max_iterations /\ nConfirm = max_iterations
            /\ nExec = max_iterations /\ nRerun = max_iterations
            /\ pc = "exited" /\ ~ENABLED Next

\* C2 witness: three cycles were made, every rerun failed, and the loop reported failure
C2_Witness ==
    /\ entry = "run" /\ fl_outcome = "exhausted" /\ nRerun = 3 /\ nPlan = 3
    /\ lastCall.caller = "rerun" /\ lastCall.ret[1] = 2

\* C3: once a rerun has returned exit code 0 the loop has reported success and the run is
\* over: as many plans were generated and executed as reruns made, and nothing can follow.
C3_StopsOnSuccess ==
    (lastCall.caller = "rerun" /\ lastCall.raised = "" /\ lastCall.ret[1] = 0)
        => /\ fl_outcome = "fixed" /\ pc = "exited"
           /\ nPlan = nRerun /\ nExec = nRerun /\ nConfirm = nRerun
           /\ ~ENABLED Next

\* C3 witness: the first rerun succeeded while two iterations were left
C3_Witness ==
    /\ entry = "run" /\ fl_outcome = "fixed" /\ nRerun = 1 /\ iteration = 1
    /\ lastCall.caller = "rerun" /\ lastCall.ret[1] = 0

C5_DeclineCancelsLoop ==
    declined
        => /\ fl_outcome = "cancelled" /\ pc = "exited"
           /\ nConfirm = nPlan /\ nExec = nConfirm - 1 /\ nRerun = nConfirm - 1
           /\ ~ENABLED Next

\* C5 witness: the operator declined the plan of the second iteration
C5_Witness ==
    /\ entry = "run" /\ declined /\ nConfirm = 2 /\ iteration = 2 /\ plan # <<>>

\* C6: in dry-run mode every result is the skipped, non-aborted "dry-run" result of the
\* plan step at its index, the returned list has one result per step, and no step is
\* prompted for, dispatched to a tool or asked about by a tool.
C6_DryRun ==
    (entry = "execute_plan" /\ dry_run)
        => /\ Len(results) <= Len(plan)
           /\ \A i \in 1..Len(results) :
                  results[i] = ExecutionResult(plan[i], <<"dry-run">>, TRUE, FALSE)
           /\ Returned => Len(results) = Len(plan)
           /\ invoked = <<>> /\ prompted = <<>> /\ toolAsked = <<>>
           /\ lastCall.caller = "none" /\ DOMAIN pending = {} /\ changed_files = <<>>

\* C6 witness: a dry run of a two-step plan holding a command and a literal write returned
C6_Witness ==
    /\ entry = "execute_plan" /\ dry_run /\ pc = "done" /\ Len(results) >= 2
    /\ plan[1].tool = "run_cmd" /\ plan[2].tool = "write_file"
    /\ \E kv \in plan[2].args : kv[1] = "content"

\* C7: the results are a prefix-aligned image of the plan in iteration order; a skipped
\* step of an interactive run has output "skipped", was prompted for and never dispatched;
\* a returned list without an aborted result has one result per step.
C7_ResultsFollowPlanOrder ==
    /\ Len(results) <= Len(plan)
    /\ \A i \in 1..Len(results) :
          /\ results[i].step = plan[i]
          /\ (results[i].skipped /\ ~dry_run)
               => /\ results[i].output = <<"skipped">> /\ ~results[i].aborted
                  /\ i \notin Range(invoked) /\ i \notin Range(toolAsked)
                  /\ i \in Range(prompted)
    /\ (Returned /\ \A i \in 1..Len(results) : ~results[i].aborted)
          => Len(results) = Len(plan)

\* C7 witness: the first step, whose n is not 1, was skipped and the second was dispatched
C7_Witness ==
    /\ entry = "execute_plan" /\ pc = "done" /\ ~dry_run /\ Len(results) = 2
    /\ results[1].skipped /\ plan[1].n # 1 /\ plan[2].n # 2
    /\ invoked = <<2>>

\* C8 as stated: a run_cmd step the operator confirmed with 'continue' is run without any
\* further confirmation prompt.
C8_NoSecondPrompt ==
    lastCall.caller = "step" => (~lastCall.asked /\ lastCall.spawned)

\* C8 amended: the dispatch calls run_cmd with skip_confirm = False, so the operator is
\* asked again exactly when the command starts with no allowlist prefix, and the command
\* is spawned exactly when that prompt is bypassed or answered yes.
C8_StepCommandAsksUnlessAllowlisted ==
    lastCall.caller = "step"
        => /\ ~lastCall.skip_confirm
           /\ lastCall.asked <=> ~InAllowlist(lastCall.command, allowlist)
           /\ lastCall.spawned <=> (~lastCall.asked \/ lastCall.answer)
           /\ (lastCall.asked /\ ~lastCall.answer) => lastCall.ret = Declined
           /\ \E i \in Range(invoked) :
                 /\ plan[i].tool = "run_cmd"
                 /\ Get(plan[i].args, "command", <<>>) = lastCall.command

\* C8 witness: the operator confirmed a run_cmd step, was asked again by run_cmd, declined,
\* and the step was recorded as a normal result of a command that did not run
C8_Witness ==
    /\ entry = "execute_plan" /\ pc = "done" /\ lastCall.caller = "step"
    /\ lastCall.asked /\ ~lastCall.answer /\ ~lastCall.spawned
    /\ \E i \in 1..Len(results) :
          /\ results[i].step.tool = "run_cmd" /\ ~results[i].skipped
          /\ results[i].output = RunCmdOutput(<<0, <<>>, <<"skipped">>>>)

\* C9: run_cmd asks for confirmation iff skip_confirm is false and the command starts
\* with none of the allowlist prefixes; a command let through by the allowlist is spawned
\* and the exit code and the stripped output of its process are returned.
C9_AsksUnlessSkipOrPrefix ==
    lastCall.caller # "none"
        => /\ lastCall.asked <=>
                (/\ ~lastCall.skip_confirm
                 /\ \A i \in 1..Len(allowlist) : ~StartsWith(lastCall.command, allowlist[i]))
           /\ (~lastCall.skip_confirm /\ ~lastCall.asked)
                => /\ lastCall.spawned
                   /\ lastCall.outcome.kind = "exit"
                        => /\ lastCall.raised = ""
                           /\ lastCall.outcome.returncode # None
                                => lastCall.ret[1] = lastCall.outcome.returncode[1]
                           /\ lastCall.ret[2] = Strip(lastCall.outcome.stdout)
                           /\ lastCall.ret[3] = Strip(lastCall.outcome.stderr)

\* C9 witness: a command that only shares a prefix (not its first word) with the allowlist
\* ran unasked and its exit code 2 came back
C9_Witness ==
    /\ entry = "run_cmd" /\ pc = "done" /\ ~lastCall.skip_confirm /\ ~lastCall.asked
    /\ lastCall.spawned /\ lastCall.ret[1] = 2 /\ lastCall.ret[2] = <<"o">>
    /\ allowlist # <<>>
    /\ \A i \in 1..Len(allowlist) : allowlist[i] # <<>> /\ FirstWord(lastCall.command) # allowlist[i]

\* C10: a declined run_cmd returns exactly (0, "", "skipped") and spawns no process.
C10_DeclinedResult ==
    (lastCall.asked /\ ~lastCall.answer)
        => /\ lastCall.ret = <<0, <<>>, <<"skipped">>>>
           /\ ~lastCall.spawned /\ lastCall.raised = ""
           /\ lastCall.outcome.kind = "none"

\* C10 witness: the operator declined a directly called command
C10_Witness ==
    /\ entry = "run_cmd" /\ pc = "done" /\ lastCall.caller = "direct"
    /\ lastCall.asked /\ ~lastCall.answer /\ lastCall.command # <<>>

\* C11: run_cmd never raises for a spawn failure, for any command string: a missing
\* executable gives (127, "", "Command not found: <executable>"), any other spawn or
\* communication failure gives (1, "", <message>), and a missing return code of a completed
\* process is normalised to 0.
C11_SpawnFailureNeverRaises ==
    lastCall.spawned
        => /\ lastCall.raised = ""
           /\ lastCall.outcome.kind = "FileNotFoundError"
                => lastCall.ret = <<NotFoundCode, <<>>,
                                    <<"Command not found: ">> \o FirstWord(lastCall.command)>>
           /\ lastCall.outcome.kind = "Exception"
                => lastCall.ret = <<1, <<>>, lastCall.outcome.stderr>>
           /\ (lastCall.outcome.kind = "exit" /\ lastCall.outcome.returncode = None)
                => lastCall.ret[1] = 0

\* C12: `nv run` without --fix ends with an exit status equal to the exit code run_cmd
\* returned for the command, whatever the outcome of run_cmd (success, non-zero exit,
\* declined, command not found, spawn error), and nothing else happens.
C12_ExitStatusMirrorsCommand ==
    (entry = "run" /\ ~fix /\ lastCall.caller = "first" /\ lastCall.raised = "")
        => /\ pc = "exited" /\ exit_status = Some(lastCall.ret[1])
           /\ nPlan = 0 /\ nRerun = 0 /\ fl_outcome = "none"
           /\ ~ENABLED Next

\* C12 witness: without --fix the shell could not be spawned for a command and the run
\* ended with status 127
C12_Witness ==
    /\ entry = "run" /\ ~fix /\ pc = "exited"
    /\ lastCall.caller = "first" /\ lastCall.outcome.kind = "FileNotFoundError"
    /\ lastCall.ret[1] = NotFoundCode /\ exit_status = Some(NotFoundCode)

\* the fix loop has been entered
InFixLoop ==
    \/ pc \in {"fix_plan", "fix_confirm", "fix_rerun"}
    \/ entry = "run" /\ pc \in {"exec", "exec_summary"}
    \/ nPlan > 0 \/ fl_outcome # "none"

\* C13: the fix loop is entered iff --fix was requested and the first run returned a
\* non-zero exit code; when the operator declines the initial command (exit code 0) or the
\* command succeeds, the planner is never called and nothing further happens.
C13_FixLoopEntry ==
    entry = "run"
        => /\ InFixLoop => (fix /\ firstFailed)
           /\ (pc # "run" /\ fix /\ firstFailed) => InFixLoop
           /\ lastCall.caller = "first"
                => (firstFailed <=> (lastCall.raised = "" /\ lastCall.ret[1] # 0))
           /\ (lastCall.caller = "first" /\ lastCall.asked /\ ~lastCall.answer) => ~firstFailed
           /\ (pc # "run" /\ ~InFixLoop)
                => /\ pc \in {"exited", "crashed"}
                   /\ nPlan = 0 /\ nConfirm = 0 /\ nExec = 0 /\ nRerun = 0
                   /\ ~ENABLED Next

\* C13 witness: with --fix the operator declined the initial command and the run ended
\* without a plan
C13_Witness ==
    /\ entry = "run" /\ fix /\ pc = "exited" /\ nPlan = 0
    /\ lastCall.caller = "first" /\ lastCall.asked /\ ~lastCall.answer
    /\ exit_status = Some(0)

\* a result produced by a dispatch: neither skipped nor aborted
Normal(r) == ~r.skipped /\ ~r.aborted

\* C14 as stated: a confirmed step naming a tool the executor does not recognise gets the
\* "tool not yet implemented" output.
C14_UnknownToolNotYetImplemented ==
    \A i \in 1..Len(results) :
        (results[i].step.tool \notin TOOL_MAP /\ Normal(results[i]))
            => results[i].output = <<"Tool '", results[i].step.tool, "' not yet implemented">>

\* C14 amended: a confirmed step naming a tool that is not in the registry is dispatched,
\* gets the output "Unknown tool: <tool>" without any exception or tool confirmation, is
\* recorded as a normal result, and the loop goes on to the next step.
C14_UnknownToolReported ==
    \A i \in 1..Len(results) :
        (results[i].step.tool \notin TOOL_MAP /\ Normal(results[i]))
            => /\ results[i].output = <<"Unknown tool: ", results[i].step.tool>>
               /\ i \in Range(invoked) /\ i \notin Range(toolAsked)
               /\ pc = "exec" => idx > i
               /\ (Returned /\ i < Len(plan)) => Len(results) > i

\* C14 witness: the first step named the unknown tool "deploy", was confirmed, and the
\* second step was dispatched after it
C14_Witness ==
    /\ entry = "execute_plan" /\ pc = "done" /\ Len(results) = 2
    /\ plan[1].tool = "deploy" /\ Normal(results[1])
    /\ invoked = <<1, 2>>

\* if not content or content == content_hint
LacksContent(step) ==
    LET content_hint == Get(step.args, "content_hint", <<>>)
        content == Get(step.args, "content", content_hint)
    IN step.tool = "write_file" /\ (content = <<>> \/ content = content_hint)

\* C15: a confirmed write_file step without a literal content (or with one that is empty or
\* equal to its content_hint) gets the 'content generation requires model call' sentinel;
\* the write tool is not called, no write confirmation is asked, the pending-write table is
\* unchanged and the step's path is not reported as a changed file.
C15_MissingContentWritesNothing ==
    (entry = "execute_plan" /\ \A j \in 1..Len(plan) :
                                  plan[j].tool = "write_file" => LacksContent(plan[j]))
        => /\ \A i \in Range(invoked) :
                  LacksContent(plan[i])
                      => /\ results[i].output =
                              <<"Skipped write_file(">> \o Get(plan[i].args, "path", <<>>)
                              \o <<"): content generation requires model call (Task 5)">>
                         /\ Normal(results[i])
                         /\ i \notin Range(toolAsked)
           /\ lastWrite = NoWrite /\ DOMAIN pending = {} /\ fs \in ExecFiles
           /\ changed_files = <<>>

IsRunCmdStep(step) == step.tool = "run_cmd"
IsWriteStep(step) == step.tool = "write_file" /\ ~LacksContent(step)

\* the dispatched steps that call run_cmd, and those that call write_file
RunCmdDispatches == {i \in Range(invoked) : IsRunCmdStep(plan[i])}
WriteDispatches == {i \in Range(invoked) : IsWriteStep(plan[i])}

\* the last dispatched step among S
LastDispatch(S) == CHOOSE i \in S : \A j \in S : j <= i

\* the i-th step was recorded as a normal result with the error output of exception e, and
\* the loop went on after it
RecordedError(i, e) ==
    /\ results[i] = ExecutionResult(plan[i], <<"Error in ", plan[i].tool, ": ", e>>, FALSE, FALSE)
    /\ pc = "exec" => idx > i
    /\ (Returned /\ i < Len(plan)) => Len(results) > i

\* C16: an exception raised by a tool during the dispatch of a confirmed step becomes the
\* output "Error in <tool>: <message>" of a normal result, execute_plan goes on with the
\* next step, and no exception leaves execute_plan.
C16_ToolExceptionBecomesOutput ==
    /\ entry = "execute_plan" => pc \in {"exec", "exec_summary", "done"}
    /\ (lastCall.caller = "step" /\ lastCall.raised # "")
         => RecordedError(LastDispatch(RunCmdDispatches), lastCall.raised)
    /\ (entry = "execute_plan" /\ lastWrite.raised # "")
         => RecordedError(LastDispatch(WriteDispatches), lastWrite.raised)

\* C16 witness: run_cmd raised in the first step, which was recorded as an error output,
\* and the second step was dispatched and the plan returned
C16_Witness ==
    /\ entry = "execute_plan" /\ pc = "done" /\ Len(results) = 2 /\ invoked = <<1, 2>>
    /\ plan[1].tool = "run_cmd" /\ plan[2].tool = "read_file"
    /\ lastCall.caller = "step" /\ lastCall.raised = "IndexError"
    /\ results[1].output = <<"Error in ", "run_cmd", ": ", "IndexError">>

\* the stored content of the file at a path, empty when there is no such file
DiskContent(files, path) ==
    IF IsFile(files, Resolve(path)) THEN files[Resolve(path)] ELSE <<>>

\* C17: write_file with content identical to the file's current content (or empty content
\* for a file that does not exist) returns "No changes needed", asks for no confirmation
\* and leaves the files and the pending-write table unchanged, whatever skip_confirm is.
C17_IdenticalContentIsNoChange ==
    (lastWrite.k > 0 /\ lastTool = NoTool
     /\ lastWrite.content = DiskContent(lastWrite.files, lastWrite.path))
        => /\ lastWrite.raised = ""
           /\ lastWrite.out = <<"No changes needed for ">> \o lastWrite.path
           /\ ~lastWrite.asked
           /\ fs = lastWrite.files /\ pending = lastWrite.pend

\* C18: for content that differs from the file's current content, write_file changes the
\* file and records a pending entry iff skip_confirm is set or the operator approves: then
\* the file holds the new content, the entry of the resolved path is (content read before
\* the write, new content) and the result is "Written: <path>"; on decline the result is
\* "Skipped: <path>" and the files and the table are unchanged.
C18_WriteIffApproved ==
    (lastWrite.k > 0 /\ lastTool = NoTool
     /\ lastWrite.content # DiskContent(lastWrite.files, lastWrite.path))
        => LET p == Resolve(lastWrite.path) IN
           IF lastWrite.skip_confirm \/ lastWrite.answer
           THEN /\ lastWrite.raised = ""
                /\ lastWrite.out = <<"Written: ">> \o lastWrite.path
                /\ fs = Put(lastWrite.files, p, lastWrite.content)
                /\ pending = Put(lastWrite.pend, p,
                                 <<ReadText(DiskContent(lastWrite.files, lastWrite.path)),
                                   lastWrite.content>>)
           ELSE /\ lastWrite.raised = ""
                /\ lastWrite.out = <<"Skipped: ">> \o lastWrite.path
                /\ lastWrite.asked
                /\ fs = lastWrite.files /\ pending = lastWrite.pend

\* C19: the pending-write table is keyed by resolved paths, one entry per path, and after a
\* confirmed write to a path that already has an entry the entry's 'new' value is the
\* content just written while its 'original' value is the one captured before the first
\* write.
C19_PendingKeepsFirstOriginal ==
    /\ \A k \in DOMAIN pending : Resolve(k) = k
    /\ (/\ lastWrite.k > 0 /\ lastWrite.raised = "" /\ lastTool = NoTool
        /\ lastWrite.out = <<"Written: ">> \o lastWrite.path
        /\ Resolve(lastWrite.path) \in DOMAIN lastWrite.pend)
         => pending[Resolve(lastWrite.path)]
              = <<lastWrite.pend[Resolve(lastWrite.path)][1], lastWrite.content>>

\* C20: for a plan JSON object with N well-formed steps _parse_plan_json recovers a Plan
\* with exactly those N steps, fields matching and in the same order, whether the JSON is
\* bare, wrapped in code fences (with or without a language tag), or preceded and followed
\* by arbitrary prose.
C20_RoundTrip ==
    (entry = "parse" /\ parsed # None /\ rawReply.obj \in 1..Len(SourcePlans))
        => /\ parsed[1].raised = ""
           /\ parsed[1].steps = SourcePlans[rawReply.obj]

\* the text holds a "{" with a "}" somewhere after it
HasBraceSpan(raw) == \E i, j \in 1..Len(raw) : i < j /\ raw[i] = "{" /\ raw[j] = "}"

\* the reply carries an object and its prose adds no brace to the span of that object
ObjectIsSpan(r) == r.obj # 0 /\ "{" \notin Range(r.prefix) /\ "}" \notin Range(r.suffix)

\* a JSON step object lacks one of the keys the parser indexes
LacksKey(s) == s.n = None \/ s.description = None \/ s.tool = None

\* C21: _parse_plan_json raises ValueError when the text holds no {...} span; when the span
\* is a JSON object, a missing summary becomes "No summary", a missing steps key an empty
\* step list, a step's missing args an empty mapping, a step lacking n, description or tool
\* makes the parse raise KeyError, and a tool name outside the registry is accepted.
C21_ParseErrorsAndDefaults ==
    (entry = "parse" /\ parsed # None)
        => LET p == parsed[1] IN
           /\ ~HasBraceSpan(Raw(rawReply)) => p.raised = "ValueError"
           /\ ObjectIsSpan(rawReply)
                => LET data == JsonObjects[rawReply.obj]
                       items == IF data.steps = None THEN <<>> ELSE data.steps[1]
                   IN
                   IF \E i \in 1..Len(items) : LacksKey(items[i])
                   THEN p.raised = "KeyError"
                   ELSE /\ p.raised = ""
                        /\ p.summary = IF data.summary = None THEN <<"No summary">>
                                       ELSE data.summary[1]
                        /\ Len(p.steps) = Len(items)
                        /\ \A i \in 1..Len(items) :
                              /\ p.steps[i].n = items[i].n[1]
                              /\ p.steps[i].description = items[i].description[1]
                              /\ p.steps[i].tool = items[i].tool[1]
                              /\ p.steps[i].args = IF items[i].args = None THEN {}
                                                   ELSE items[i].args[1]

\* C21 witness: a fenced reply with prose around it, whose object has no summary and a step
\* without args naming a tool outside the registry, was parsed into a plan
C21_Witness ==
    /\ entry = "parse" /\ pc = "done" /\ parsed # None
    /\ rawReply.style = "fenced_json" /\ rawReply.prefix = <<"w">> /\ rawReply.suffix = <<"w">>
    /\ JsonObjects[rawReply.obj].summary = None
    /\ parsed[1].summary = <<"No summary">>
    /\ Len(parsed[1].steps) = 2
    /\ parsed[1].steps[1].tool \notin TOOL_MAP /\ parsed[1].steps[1].args = {}

\* C22: `nv code` ends with exit status 1, after the message of one of its handlers and
\* without asking for or executing any plan step, on every plan-generation failure: absent
\* JSON object, malformed JSON, a step missing a required key, a model or API error.
C22_PlanFailureExitsOne ==
    (entry = "code" /\ planRaised # "")
        => /\ pc = "exited" /\ exit_status = Some(1)
           /\ code_msg \in {"Failed to generate plan", "API error"}
           /\ nConfirm = 0 /\ nExec = 0 /\ results = <<>> /\ prompted = <<>>
           /\ ~ENABLED Next

\* the lines of a text file, as its "\n" line ends delimit them
NewlineCount(text) == Cardinality({i \in 1..Len(text) : text[i] = "\n"})
LineCount(text) ==
    NewlineCount(text) + (IF text # <<>> /\ text[Len(text)] # "\n" THEN 1 ELSE 0)

\* the first n lines of a text of more than n lines, without the line end of the n-th
FirstLines(text, n) ==
    LET e == CHOOSE i \in 1..Len(text) :
                 text[i] = "\n" /\ NewlineCount(SubSeq(text, 1, i)) = n
    IN SubSeq(text, 1, e - 1)

\* C23: read_file returns a file of at most 500 lines in full, with no truncation notice,
\* and for a file of L > 500 lines its first 500 lines followed by the notice of exactly
\* L - 500 omitted lines.
C23_TruncationBoundary ==
    (lastTool.op = "read_file" /\ IsFile(fs, Resolve(lastTool.path)))
        => LET text == ReadText(fs[Resolve(lastTool.path)])
               L == LineCount(text)
           IN IF L <= ReadMaxLines
              THEN lastTool.out = text
              ELSE lastTool.out =
                     FirstLines(text, ReadMaxLines)
                     \o <<"\n... [truncated, ", ToString(L - ReadMaxLines), " more lines]">>

\* the matches of a pattern directly in a directory and anywhere below it
TopMatches(files, base, pattern) ==
    {e \in Below(files, base) : Len(e) = Len(base) + 1 /\ Matches(pattern, e[Len(e)])}
AllMatches(files, base, pattern) ==
    {e \in Below(files, base) : Matches(pattern, e[Len(e)])}

\* the number of matches a result lists: each listed match starts with an indent token
ShownCount(out) == Cardinality({i \in 1..Len(out) : out[i] = "  "})

\* C24: search_files uses the recursive glob only when the top-level glob has no match, so
\* a name that exists only below the directory is found; the result gives the number of
\* matches and lists at most 50 of them in sorted order, with an "and N more" suffix
\* exactly when there are more than 50 (N = count - 50), and is the "No files found"
\* message when both globs are empty.
C24_SearchListsMatches ==
    lastTool.op = "search_files"
        => LET base == Resolve(lastTool.path)
               top == TopMatches(fs, base, lastTool.pattern)
               used == IF top # {} THEN top ELSE AllMatches(fs, base, lastTool.pattern)
               n == Cardinality(used)
               out == lastTool.out
           IN IF used = {}
              THEN out = <<"No files found matching '">> \o lastTool.pattern
                         \o <<"' in '">> \o lastTool.path \o <<"'">>
              ELSE /\ SubSeq(out, 1, 3) = <<"Found ", ToString(n), " file(s):\n">>
                   /\ ShownCount(out) = Min(n, 50)
                   /\ IF n > 50
                      THEN /\ SubSeq(out, Len(out) - 2, Len(out))
                                = <<"\n  ... and ", ToString(n - 50), " more">>
                           /\ SubSeq(out, 4, Len(out) - 3)
                                = Listing(Take(Sorted(used), 50), base)
                      ELSE SubSeq(out, 4, Len(out)) = Listing(Sorted(used), base)

\* C24 witness: a name that exists only in a subdirectory was found by the recursive glob
C24_Witness ==
    /\ lastTool.op = "search_files" /\ lastTool.pattern = <<"b.py">> /\ lastTool.path = <<".">>
    /\ ~IsFile(fs, <<"b.py">>) /\ IsFile(fs, <<"sub", "b.py">>)
    /\ lastTool.out = <<"Found ", "1", " file(s):\n", "  ", "sub", "b.py">>

\* what a step of the program does to the pending-write table
PendingStep ==
    /\ DirectClearPending
         => IF lastTool'.path = None
            THEN DOMAIN pending' = {}
            ELSE /\ DOMAIN pending' = DOMAIN pending \ {Resolve(lastTool'.path[1])}
                 /\ \A k \in DOMAIN pending' : pending'[k] = pending[k]
    /\ DirectGetPendingDiff
         => /\ pending' = pending
            /\ lastTool'.out =
                 IF \E k \in DOMAIN pending : k = Resolve(lastTool'.path[1])
                 THEN <<pending[Resolve(lastTool'.path[1])]>>
                 ELSE <<>>
    /\ ~DirectClearPending => \A k \in DOMAIN pending : k \in DOMAIN pending'

\* C25: clear_pending(path) removes the entry of that resolved path only and leaves every
\* other entry unchanged, clear_pending() empties the table, get_pending_diff(path) returns
\* the (original, new) pair of the entry or None when the path has none, and no other step
\* removes an entry.
C25_PendingTable == [][PendingStep]_vars

\* C25 witness: with entries for two files, the entry of one was cleared through an
\* unresolved path and the other is still there
C25_Witness ==
    /\ entry = "write_file" /\ lastTool.op = "clear_pending" /\ lastTool.path = Some(<<".", "a.py">>)
    /\ DOMAIN lastTool.pend = {<<"a.py">>, <<"b.py">>}
    /\ DOMAIN pending = {<<"b.py">>}
    /\ pending[<<"b.py">>] = lastTool.pend[<<"b.py">>]

\* C26: in each fix-loop iteration the events come in the order generate plan, operator
\* confirmation, execute plan, rerun of the original command; the rerun is made with the
\* confirmation skipped and the operator is never asked about it; the planning task of the
\* first iteration embeds the combined output of the first failure and the task of
\* iteration k+1 that of the rerun of iteration k.
C26_FixIterationOrder ==
    entry = "run"
        => /\ nConfirm <= nPlan /\ nExec <= nConfirm /\ nRerun <= nExec /\ nPlan <= nRerun + 1
           /\ pc = "fix_plan"
                => (nPlan = iteration - 1 /\ nConfirm = nPlan /\ nExec = nPlan /\ nRerun = nPlan)
           /\ pc = "fix_confirm"
                => (nPlan = iteration /\ nConfirm = nPlan - 1 /\ nExec = nPlan - 1
                    /\ nRerun = nPlan - 1)
           /\ pc \in {"exec", "exec_summary", "fix_rerun"}
                => (nPlan = iteration /\ nConfirm = nPlan /\ nExec = nPlan /\ nRerun = nPlan - 1)
           /\ lastCall.caller = "rerun"
                => (lastCall.skip_confirm /\ ~lastCall.asked /\ lastCall.spawned
                    /\ lastCall.command = command)
           /\ pc = "fix_confirm"
                => /\ lastCall.caller = (IF nPlan = 1 THEN "first" ELSE "rerun")
                   /\ lastCall.raised = "" /\ lastCall.ret[1] # 0
                   /\ lastTask = Combined(lastCall.ret[2], lastCall.ret[3])

\* C26 witness: the plan of the second iteration was generated from the output of the
\* first rerun, which exited with 2 and wrote to both streams
C26_Witness ==
    /\ entry = "run" /\ pc = "fix_confirm" /\ iteration = 2 /\ nRerun = 1
    /\ lastCall.caller = "rerun" /\ lastCall.ret[1] = 2
    /\ lastTask = <<"STDOUT:\n", "o", "\n", "STDERR:\n", "e", "\n">>

\* the dispatched write_file steps whose output holds "Written:", in execution order
MarkedWrites ==
    SelectSeq(invoked, LAMBDA i : plan[i].tool = "write_file" /\ HasWritten(results[i].output))

\* the path argument of the i-th step as execute_plan reports it
ReportedPath(i) == Get(plan[i].args, "path", <<"unknown">>)

\* changed_files lists the path arguments of the marked write steps, in execution order
ListsMarkedWrites ==
    /\ Len(changed_files) = Len(MarkedWrites)
    /\ \A k \in 1..Len(MarkedWrites) : changed_files[k] = ReportedPath(MarkedWrites[k])

\* the summary is reported once, when execute_plan returns, with the changed files
SummaryOnce ==
    IF Returned THEN summary = <<changed_files>> ELSE summary = <<>>

\* C27: the changed files execute_plan reports at its end are, in execution order, exactly
\* the path arguments of the dispatched write_file steps whose output contains "Written:";
\* steps that were skipped, aborted, dry-run, declined at the write confirmation, found
\* unchanged or that hit the missing-content sentinel never appear; the summary is reported
\* exactly once per call, also after an abort.
C27_ChangedFilesSummary ==
    entry = "execute_plan"
        => /\ ListsMarkedWrites
           /\ \A k \in 1..Len(MarkedWrites) :
                 LET i == MarkedWrites[k] IN
                 /\ Normal(results[i]) /\ ~dry_run
                 /\ ~LacksContent(plan[i])
                 /\ results[i].output = <<"Written: ">> \o ReportedPath(i)
           /\ SummaryOnce

\* how often the i-th step was handed to _execute_tool
Dispatches(i) == Cardinality({k \in 1..Len(invoked) : invoked[k] = i})

\* C28: in every result list of execute_plan no result is both skipped and aborted, at
\* most one result is aborted and it is the last of the list, and a result is neither
\* skipped nor aborted exactly when its step was dispatched, which then happened once.
C28_ResultFlags ==
    \A i \in 1..Len(results) :
        /\ ~(results[i].skipped /\ results[i].aborted)
        /\ results[i].aborted => (i = Len(results) /\ pc # "exec")
        /\ Dispatches(i) = IF Normal(results[i]) THEN 1 ELSE 0

\* C28 witness: a returned list whose first result came from a dispatch and whose second
\* and last result is the aborted one
C28_Witness ==
    /\ entry = "execute_plan" /\ pc = "done" /\ Len(results) = 2
    /\ Normal(results[1]) /\ results[2].aborted /\ ~results[2].skipped
    /\ invoked = <<1>>

\* what a step of the fix loop does around an execute_plan call
AbortKeepsLoopStep ==
    /\ (entry = "run" /\ pc \in {"exec", "exec_summary"} /\ pc' \notin {"exec", "exec_summary"})
         => /\ pc' = "fix_rerun" /\ fl_outcome' = "none" /\ exit_status' = None
            /\ lastExec' = ExecOutcome(results)
    /\ (entry = "run" /\ pc = "fix_rerun" /\ lastExec \in {"aborted", "all_skipped"})
         => /\ nRerun' = nRerun + 1
            /\ lastCall'.caller = "rerun" /\ lastCall'.spawned /\ lastCall'.command = command
            /\ fl_outcome' # "cancelled"
            /\ (lastCall'.raised = "" /\ lastCall'.ret[1] # 0 /\ iteration < max_iterations)
                 => (pc' = "fix_plan" /\ iteration' = iteration + 1 /\ fl_outcome' = "none")

\* C29: in a fix-loop iteration whose plan the operator confirmed, an abort (or a skip of
\* every step) chosen inside execute_plan does not cancel the fix loop: execute_plan
\* returns to the loop, the original command is rerun, and the loop goes on to the next
\* iteration when that rerun fails and budget remains.
C29_AbortKeepsLoop == [][AbortKeepsLoopStep]_vars

\* C29 witness: the plan of the first iteration was aborted, the rerun was made and failed,
\* and the second iteration has started
C29_Witness ==
    /\ entry = "run" /\ lastExec = "aborted" /\ pc = "fix_plan" /\ iteration = 2
    /\ nRerun = 1 /\ lastCall.caller = "rerun" /\ lastCall.ret[1] # 0

\* the ways _fix_loop returns
FixLoopEnds == {"fixed", "exhausted", "cancelled", "plan_failed"}

\* C30: once `nv run --fix` has entered the fix loop, the way the loop ends (fixed, budget
\* exhausted, cancelled by the operator, planner failure caught by the loop) is not
\* reflected in the exit status: _run_async returns normally in all four cases and the
\* process ends with status 0, whatever non-zero exit code the command had.
C30_FixLoopExitStatus ==
    entry = "run"
        => /\ fl_outcome \in FixLoopEnds
                => (pc = "exited" /\ exit_status = Some(0) /\ fix /\ firstFailed)
           /\ (InFixLoop /\ pc = "exited")
                => (fl_outcome \in FixLoopEnds /\ exit_status = Some(0))
           /\ (InFixLoop /\ pc # "exited" /\ pc # "crashed")
                => (fl_outcome = "none" /\ exit_status = None)

\* C30 witness: the budget was exhausted with the command still failing with exit code 2
\* and the process ended with status 0
C30_Witness ==
    /\ entry = "run" /\ fl_outcome = "exhausted" /\ pc = "exited" /\ exit_status = Some(0)
    /\ lastCall.caller = "rerun" /\ lastCall.ret[1] = 2

====
